---- MODULE Spec2Model ----
(***************************************************************************)
(* A model of the taskrunner package: the TaskRunner (a pool of worker     *)
(* goroutines fed by an unbuffered dispatch channel), NewTaskRunner and    *)
(* its options, the Start, Stop and Run methods, the worker loop and the   *)
(* promise closures Run returns.                                           *)
(*                                                                         *)
(* Goroutines are modelled by their position: callers[c].pc for the        *)
(* goroutines that call the API, workers[w].pc for the worker goroutines.  *)
(* Channels are identified by the number of the make() that created them.  *)
(***************************************************************************)
EXTENDS Naturals, Integers, Sequences, FiniteSets, TLC

\* ---------------------------------------------------------------- bounds
\* The largest worker count NewTaskRunner is configured with.
MaxWorkerCount == 2
\* The number of Run calls issued in one behaviour.
MaxTasks == 2
\* The number of Start calls that may succeed in one behaviour.
MaxStarts == 2
\* The number of times one promise is called.
MaxInvoke == 2
\* The number of options one call of NewTaskRunner is given.
MaxOptions == 3

\* The goroutines that call Start and Stop.
Callers == {"a", "b"}

\* ------------------------------------------------------------- constants
stoppedState == 0
startedState == 1
\* const maxWorkers, the worker count of a runner made without the option.
defaultMaxWorkers == 4

errRunnerNotStarted == "errRunnerNotStarted"
errRunnerAlreadyStarted == "errRunnerAlreadyStarted"
errTimeoutExceeded == "errTimeoutExceeded"
NoErr == "nil"

\* What the tasks of the model return: a value and no error, or no value and
\* an error (mockTask with and without withError).
TaskReturns ==
    {[res |-> "test", err |-> NoErr], [res |-> "nil", err |-> "errMockFailure"]}

NoOne == "noone"
NoTask == 0
Tasks == 1..MaxTasks

VARIABLES
    state,        \* p.state
    maxWorkers,   \* p.maxWorkers
    tasks,        \* p.tasks: the id of the dispatch channel
    exit,         \* p.exit: the id of the exit channel
    nmake,        \* how many channel pairs make() has created
    closedTasks,  \* ids of the dispatch channels that are closed
    closedExit,   \* ids of the exit channels that are closed
    wg,           \* p.wg: the WaitGroup counter
    mtxW,         \* p.mtx: the caller that holds or has claimed the write lock
    mtxR,         \* p.mtx: the callers that hold the read lock
    callers,      \* the goroutines that call Start and Stop
    workers,      \* the live worker goroutines
    wrappers,     \* per Run call: its goroutine, context, task, result channel
    ntask,        \* how many Run calls have been issued
    panicked,     \* "none", or the runtime panic that ended the process
    ctor          \* the call of NewTaskRunner that made the runner

vars == <<state, maxWorkers, tasks, exit, nmake, closedTasks, closedExit, wg,
          mtxW, mtxR, callers, workers, wrappers, ntask, panicked, ctor>>

\* ------------------------------------------------------------------ state

\* A goroutine that calls Start and Stop. pc is its position, op the method
\* it last called, ret the error that call returned, i the index of Start's
\* launch loop. atCall, conc and mixed record, for the call, the lifecycle
\* state when it was issued, whether another call of the same method
\* overlapped it, and whether it is not one of a set of recorded calls of one
\* method (a call of the other method was running when it was issued or was
\* issued since, or a caller it overlapped has called again). busy records,
\* for a Stop call, whether a worker was executing a task when the call
\* closed the exit channel, held whether a Run call was blocked in its send,
\* holding the read lock, when the call asked for the lock.
IdleCaller ==
    [pc |-> "idle", op |-> "none", ret |-> NoErr, i |-> 0,
     atCall |-> stoppedState, conc |-> FALSE, mixed |-> FALSE,
     busy |-> FALSE, held |-> FALSE]

\* One Run call and its goroutine: pc is the call's position ("none" before
\* the call, "returned" after it), done whether the context passed is done,
\* made whether the taskWrapper and its result channel exist, tk the dispatch
\* channel the send uses, resultChannel the result channel's buffer, sent how
\* many taskResults were sent on it, promise the closure Run returned, execs
\* how often the task was executed, returned what execute returned, late
\* whether the context was done when it returned, got what the calls of
\* the closure returned.
NoWrapper ==
    [pc |-> "none", done |-> FALSE, made |-> FALSE, tk |-> 0,
     resultChannel |-> << >>, sent |-> 0, promise |-> "none", execs |-> 0,
     returned |-> << >>, late |-> FALSE, got |-> << >>]

InFlight(c) == callers[c].pc # "idle"

\* ---------------------------------------------------------- NewTaskRunner

errNotPositive == "number of goroutines must be postive"
errNilCounter == "counter must be non-nil"

\* OptionMaxGoroutines(n), the option that sets the worker count.
OptionMaxGoroutines(n) ==
    [name |-> "OptionMaxGoroutines", n |-> n, ctr |-> "none"]

\* OptionTaskCounter(ctr), with ctr "nil" or "counter".
OptionTaskCounter(ctr) == [name |-> "OptionTaskCounter", n |-> 0, ctr |-> ctr]

\* The options a call of NewTaskRunner is given in the model.
Options ==
    {OptionMaxGoroutines(n) : n \in (-1)..MaxWorkerCount}
        \cup {OptionTaskCounter(ctr) : ctr \in {"nil", "counter"}}

\* The lists of at most n options.
OptionLists(n) == UNION {[1..k -> Options] : k \in 0..n}

\* An OptionMaxGoroutines that accepts zero (n < 0).
CountRejected_OnlyNegative(n) == n < 0

\* if n <= 0 { return errors.New("number of goroutines must be postive") }
CountRejected(n) == n <= 0

\* What the function an option stands for returns when it is applied.
OptionError(opt) ==
    CASE opt.name = "OptionMaxGoroutines" ->
            IF CountRejected(opt.n) THEN errNotPositive ELSE NoErr
      [] opt.name = "OptionTaskCounter" ->
            IF opt.ctr = "nil" THEN errNilCounter ELSE NoErr

\* A call of NewTaskRunner(options...) that has built p and is about to
\* range over its options: i is the index of the next one.
NewCall(options) ==
    [pc |-> "range", options |-> options, i |-> 1, runner |-> "none",
     err |-> NoErr]

\* The call NewTaskRunner(OptionMaxGoroutines(n)) after it returned &p, nil.
Constructed(n) ==
    [pc |-> "returned", options |-> <<OptionMaxGoroutines(n)>>, i |-> 2,
     runner |-> "&p", err |-> NoErr]

Init ==
    /\ state = stoppedState
    /\ maxWorkers \in 1..MaxWorkerCount
    /\ tasks = 1
    /\ exit = 1
    /\ nmake = 1
    /\ closedTasks = {}
    /\ closedExit = {}
    /\ wg = 0
    /\ mtxW = NoOne
    /\ mtxR = {}
    /\ callers = [c \in Callers |-> IdleCaller]
    /\ workers = << >>
    /\ wrappers = [t \in Tasks |-> NoWrapper]
    /\ ntask = 0
    /\ panicked = "none"
    /\ ctor = Constructed(maxWorkers)

\* NewTaskRunner(options...) has been called and has built p: the two
\* channels, the stopped state and the default worker count.
InitNew ==
    /\ state = stoppedState
    /\ maxWorkers = defaultMaxWorkers
    /\ tasks = 1
    /\ exit = 1
    /\ nmake = 1
    /\ closedTasks = {}
    /\ closedExit = {}
    /\ wg = 0
    /\ mtxW = NoOne
    /\ mtxR = {}
    /\ callers = [c \in Callers |-> IdleCaller]
    /\ workers = << >>
    /\ wrappers = [t \in Tasks |-> NoWrapper]
    /\ ntask = 0
    /\ panicked = "none"
    /\ ctor \in {NewCall(options) : options \in OptionLists(MaxOptions)}

\* One iteration of the loop over the options: opt(&p) is applied, and an
\* error makes NewTaskRunner return nil and that error.
NewOption ==
    /\ ctor.pc = "range"
    /\ ctor.i <= Len(ctor.options)
    /\ LET opt == ctor.options[ctor.i]
           err == OptionError(opt)
       IN  IF err # NoErr
           THEN /\ ctor' = [ctor EXCEPT
                              !.pc = "returned", !.runner = "nil",
                              !.err = err]
                /\ UNCHANGED maxWorkers
           ELSE /\ ctor' = [ctor EXCEPT !.i = @ + 1]
                /\ maxWorkers' = IF opt.name = "OptionMaxGoroutines"
                                 THEN opt.n
                                 ELSE maxWorkers
    /\ UNCHANGED <<state, tasks, exit, nmake, closedTasks, closedExit, wg,
                   mtxW, mtxR, callers, workers, wrappers, ntask, panicked>>

\* The loop is over: return &p, nil.
NewReturn ==
    /\ ctor.pc = "range"
    /\ ctor.i > Len(ctor.options)
    /\ ctor' = [ctor EXCEPT !.pc = "returned", !.runner = "&p"]
    /\ UNCHANGED <<state, maxWorkers, tasks, exit, nmake, closedTasks,
                   closedExit, wg, mtxW, mtxR, callers, workers, wrappers,
                   ntask, panicked>>

NextNew ==
    \/ NewOption
    \/ NewReturn

\* The calls of NewTaskRunner.
SpecNew == InitNew /\ [][NextNew]_vars

isRunning == state = startedState

Live == panicked = "none"

\* A runtime panic ends the process: nothing runs once panicked is set.

Returned(c, e) == [callers[c] EXCEPT !.pc = "idle", !.ret = e]

OnlyErr(e) == [res |-> "nil", err |-> e]

\* The bookkeeping of a call of Start or Stop: the caller c enters method op
\* at position pc. The calls it overlaps are marked conc; a recorded call is
\* marked mixed when a call of the other method is issued, or when a caller
\* whose call it overlapped calls again (the record of that call is gone).
Called(c, op, pc, other) ==
    [d \in Callers |->
        IF d = c
        THEN [callers[c] EXCEPT
                !.pc = pc, !.op = op, !.ret = NoErr, !.busy = FALSE,
                !.held = FALSE,
                !.atCall = state,
                !.mixed = \E e \in Callers \ {c} :
                              callers[e].op = other /\ InFlight(e),
                !.conc = \E e \in Callers \ {c} :
                              callers[e].op = op /\ InFlight(e)]
        ELSE [callers[d] EXCEPT
                !.mixed = \/ @
                          \/ callers[d].op = other
                          \/ callers[c].conc /\ callers[d].conc,
                !.conc = @ \/ (callers[d].op = op /\ InFlight(d))]]

StartsInFlight == {c \in Callers : callers[c].op = "Start" /\ InFlight(c)}

\* ------------------------------------------------------------------ Start

\* A goroutine calls p.Start().
CallStart(c) ==
    /\ Live
    /\ callers[c].pc = "idle"
    /\ (nmake - 1) + Cardinality(StartsInFlight) < MaxStarts
    /\ callers' = Called(c, "Start", "start_lock", "Stop")
    /\ UNCHANGED <<ctor, state, maxWorkers, tasks, exit, nmake, closedTasks,
                   closedExit, wg, mtxW, mtxR, workers, wrappers, ntask,
                   panicked>>

\* p.mtx.Lock(): the caller claims the write lock, which keeps new readers
\* out; it owns the lock once the readers have left (WriteLocked).
Lock(c) ==
    /\ mtxW = NoOne
    /\ mtxW' = c

\* A Lock that does not wait for the readers to leave.
WriteLocked_IgnoresReaders(c) == mtxW = c

WriteLocked(c) == mtxW = c /\ mtxR = {}

StartLock(c) ==
    /\ Live
    /\ callers[c].pc = "start_lock"
    /\ Lock(c)
    /\ callers' = [callers EXCEPT ![c].pc = "start_cs"]
    /\ UNCHANGED <<ctor, state, maxWorkers, tasks, exit, nmake, closedTasks,
                   closedExit, wg, mtxR, workers, wrappers, ntask, panicked>>

\* A Start that never rejects.
StartRejects_Never == FALSE

\* if p.isRunning() { return errRunnerAlreadyStarted }
StartRejects == isRunning

\* A Start that makes its channels before it checks the state.
StartCheck_MakesFirst(c) ==
    /\ Live
    /\ callers[c].pc = "start_cs"
    /\ WriteLocked(c)
    /\ tasks' = nmake + 1
    /\ exit' = nmake + 1
    /\ nmake' = nmake + 1
    /\ IF isRunning
       THEN /\ callers' = [callers EXCEPT
                             ![c] = Returned(c, errRunnerAlreadyStarted)]
            /\ mtxW' = NoOne
            /\ UNCHANGED <<state, wg>>
       ELSE /\ state' = startedState
            /\ wg' = wg + maxWorkers
            /\ callers' = [callers EXCEPT ![c].pc = "start_spawn", ![c].i = 0]
            /\ UNCHANGED mtxW
    /\ UNCHANGED <<ctor, maxWorkers, closedTasks, closedExit, mtxR, workers,
                   wrappers, ntask, panicked>>

\* A Start that keeps the channels it has.
StartCheck_KeepsChannels(c) ==
    /\ Live
    /\ callers[c].pc = "start_cs"
    /\ WriteLocked(c)
    /\ IF isRunning
       THEN /\ callers' = [callers EXCEPT
                             ![c] = Returned(c, errRunnerAlreadyStarted)]
            /\ mtxW' = NoOne
            /\ UNCHANGED <<state, nmake, wg>>
       ELSE /\ state' = startedState
            /\ nmake' = nmake + 1
            /\ wg' = wg + maxWorkers
            /\ callers' = [callers EXCEPT ![c].pc = "start_spawn", ![c].i = 0]
            /\ UNCHANGED mtxW
    /\ UNCHANGED <<ctor, maxWorkers, tasks, exit, closedTasks, closedExit, mtxR,
                   workers, wrappers, ntask, panicked>>

\* Start's body up to the launch loop: the check, the new state, the two new
\* channels and wg.Add. A rejected Start returns, releasing the lock.
StartCheck(c) ==
    /\ Live
    /\ callers[c].pc = "start_cs"
    /\ WriteLocked(c)
    /\ IF StartRejects
       THEN /\ callers' = [callers EXCEPT
                             ![c] = Returned(c, errRunnerAlreadyStarted)]
            /\ mtxW' = NoOne
            /\ UNCHANGED <<state, tasks, exit, nmake, wg>>
       ELSE /\ state' = startedState
            /\ tasks' = nmake + 1
            /\ exit' = nmake + 1
            /\ nmake' = nmake + 1
            /\ wg' = wg + maxWorkers
            /\ callers' = [callers EXCEPT ![c].pc = "start_spawn", ![c].i = 0]
            /\ UNCHANGED mtxW
    /\ UNCHANGED <<ctor, maxWorkers, closedTasks, closedExit, mtxR, workers,
                   wrappers, ntask, panicked>>

\* A worker goroutine as the go statement leaves it: about to enter its loop.
NewWorker ==
    [pc |-> "loop", ex |-> 0, tk |-> 0, t |-> NoTask,
     r |-> [res |-> "nil", err |-> NoErr]]

\* The name of the worker the i-th iteration of a launch loop starts.
WorkerId(i) == <<nmake, i>>

\* A launch loop that runs once too often (i <= p.maxWorkers).
LaunchCount_OneMore == maxWorkers + 1

\* How many workers a Start launches.
LaunchCount == maxWorkers

\* One iteration of the launch loop: go func() { ... }().
StartSpawn(c) ==
    /\ Live
    /\ callers[c].pc = "start_spawn"
    /\ callers[c].i < LaunchCount
    /\ workers' = [w \in DOMAIN workers \cup {WorkerId(callers[c].i)} |->
                     IF w \in DOMAIN workers THEN workers[w] ELSE NewWorker]
    /\ callers' = [callers EXCEPT ![c].i = @ + 1]
    /\ UNCHANGED <<ctor, state, maxWorkers, tasks, exit, nmake, closedTasks,
                   closedExit, wg, mtxW, mtxR, wrappers, ntask, panicked>>

\* The loop is over: return nil, and the deferred p.mtx.Unlock().
StartReturn(c) ==
    /\ Live
    /\ callers[c].pc = "start_spawn"
    /\ callers[c].i >= LaunchCount
    /\ callers' = [callers EXCEPT ![c] = Returned(c, NoErr)]
    /\ mtxW' = NoOne
    /\ UNCHANGED <<ctor, state, maxWorkers, tasks, exit, nmake, closedTasks,
                   closedExit, wg, mtxR, workers, wrappers, ntask, panicked>>

\* ------------------------------------------------------------------- Stop

\* A goroutine calls p.Stop().
CallStop(c) ==
    /\ Live
    /\ callers[c].pc = "idle"
    /\ callers' = Called(c, "Stop", "stop_lock", "Start")
    /\ UNCHANGED <<ctor, state, maxWorkers, tasks, exit, nmake, closedTasks,
                   closedExit, wg, mtxW, mtxR, workers, wrappers, ntask,
                   panicked>>

\* The Run calls that hold the read lock and are blocked in their send: no
\* worker is ready to receive.
BlockedRuns ==
    {t \in mtxR :
        /\ wrappers[t].pc = "run_select"
        /\ \A w \in DOMAIN workers :
             ~(workers[w].pc = "select" /\ workers[w].tk = wrappers[t].tk)}

StopLock(c) ==
    /\ Live
    /\ callers[c].pc = "stop_lock"
    /\ Lock(c)
    /\ callers' = [callers EXCEPT
                     ![c].pc = "stop_cs", ![c].held = BlockedRuns # {}]
    /\ UNCHANGED <<ctor, state, maxWorkers, tasks, exit, nmake, closedTasks,
                   closedExit, wg, mtxR, workers, wrappers, ntask, panicked>>

\* A Stop that never rejects.
StopRejects_Never == FALSE

\* if !p.isRunning() { return errRunnerNotStarted }
StopRejects == ~isRunning

\* Stop's body up to wg.Wait: the check, the new state and close(p.exit).
\* Closing a closed channel panics.
StopCheck(c) ==
    /\ Live
    /\ callers[c].pc = "stop_cs"
    /\ WriteLocked(c)
    /\ IF StopRejects
       THEN /\ callers' = [callers EXCEPT
                             ![c] = Returned(c, errRunnerNotStarted)]
            /\ mtxW' = NoOne
            /\ UNCHANGED <<state, closedExit, panicked>>
       ELSE IF exit \in closedExit
       THEN /\ panicked' = "close of closed channel"
            /\ UNCHANGED <<state, closedExit, callers, mtxW>>
       ELSE /\ state' = stoppedState
            /\ closedExit' = closedExit \cup {exit}
            /\ callers' = [callers EXCEPT
                             ![c].pc = "stop_wait",
                             ![c].busy = \E w \in DOMAIN workers :
                                            workers[w].pc = "exec"]
            /\ UNCHANGED <<mtxW, panicked>>
    /\ UNCHANGED <<ctor, maxWorkers, tasks, exit, nmake, closedTasks, wg, mtxR,
                   workers, wrappers, ntask>>

\* A Wait that returns at once.
WaitDone_NoWait == TRUE

\* p.wg.Wait() returns when the counter is zero.
WaitDone == wg = 0

StopWait(c) ==
    /\ Live
    /\ callers[c].pc = "stop_wait"
    /\ WaitDone
    /\ callers' = [callers EXCEPT ![c].pc = "stop_close"]
    /\ UNCHANGED <<ctor, state, maxWorkers, tasks, exit, nmake, closedTasks,
                   closedExit, wg, mtxW, mtxR, workers, wrappers, ntask,
                   panicked>>

\* close(p.tasks); return nil, and the deferred p.mtx.Unlock().
StopClose(c) ==
    /\ Live
    /\ callers[c].pc = "stop_close"
    /\ IF tasks \in closedTasks
       THEN /\ panicked' = "close of closed channel"
            /\ UNCHANGED <<closedTasks, callers, mtxW>>
       ELSE /\ closedTasks' = closedTasks \cup {tasks}
            /\ callers' = [callers EXCEPT ![c] = Returned(c, NoErr)]
            /\ mtxW' = NoOne
            /\ UNCHANGED panicked
    /\ UNCHANGED <<ctor, state, maxWorkers, tasks, exit, nmake, closedExit, wg,
                   mtxR, workers, wrappers, ntask>>

\* -------------------------------------------------------------------- Run

\* A goroutine calls p.Run(ctx, w); the call is named t.
CallRun(t) ==
    /\ Live
    /\ t = ntask + 1
    /\ ntask' = ntask + 1
    /\ wrappers' = [wrappers EXCEPT ![t].pc = "run_rlock"]
    /\ UNCHANGED <<ctor, state, maxWorkers, tasks, exit, nmake, closedTasks,
                   closedExit, wg, mtxW, mtxR, callers, workers, panicked>>

\* p.mtx.RLock(): blocks while a writer holds or has claimed the lock.
RLock(t) ==
    /\ mtxW = NoOne
    /\ mtxR' = mtxR \cup {t}

RunRLock(t) ==
    /\ Live
    /\ wrappers[t].pc = "run_rlock"
    /\ RLock(t)
    /\ wrappers' = [wrappers EXCEPT ![t].pc = "run_cs"]
    /\ UNCHANGED <<ctor, state, maxWorkers, tasks, exit, nmake, closedTasks,
                   closedExit, wg, mtxW, callers, workers, ntask, panicked>>

\* A Run that never rejects.
RunRejects_Never == FALSE

\* if !p.isRunning() { return func() { return nil, errRunnerNotStarted } }
RunRejects == ~isRunning

\* Run's body up to the select: the check (a rejected Run returns the
\* not-started closure, and the deferred p.mtx.RUnlock() runs), then the
\* result channel and the taskWrapper; the send's channel operand p.tasks is
\* evaluated.
RunCheck(t) ==
    /\ Live
    /\ wrappers[t].pc = "run_cs"
    /\ IF RunRejects
       THEN /\ wrappers' = [wrappers EXCEPT
                              ![t].pc = "returned", ![t].promise = "notStarted"]
            /\ mtxR' = mtxR \ {t}
       ELSE /\ wrappers' = [wrappers EXCEPT
                              ![t].pc = "run_select", ![t].made = TRUE,
                              ![t].resultChannel = << >>, ![t].tk = tasks]
            /\ UNCHANGED mtxR
    /\ UNCHANGED <<ctor, state, maxWorkers, tasks, exit, nmake, closedTasks,
                   closedExit, wg, mtxW, callers, workers, ntask, panicked>>

\* A worker is ready to receive from channel ch.
Receiving(w, ch) == workers[w].pc = "select" /\ workers[w].tk = ch

\* The wrappers whose Task call is in progress.
Executing == {workers[w].t : w \in {v \in DOMAIN workers : workers[v].pc = "exec"}}

\* A Run whose accepted send returns without p.mtx.RUnlock().
RunSend_KeepsRLock(t) ==
    /\ Live
    /\ wrappers[t].pc = "run_select"
    /\ IF wrappers[t].tk \in closedTasks
       THEN /\ panicked' = "send on closed channel"
            /\ UNCHANGED <<workers, wrappers>>
       ELSE /\ \E w \in DOMAIN workers :
                 /\ workers[w].pc = "select"
                 /\ workers[w].tk = wrappers[t].tk
                 /\ workers' = [workers EXCEPT ![w].pc = "exec", ![w].t = t]
            /\ wrappers' = [wrappers EXCEPT
                              ![t].pc = "returned", ![t].promise = "wait",
                              ![t].execs = @ + 1]
            /\ UNCHANGED panicked
    /\ UNCHANGED <<ctor, state, maxWorkers, tasks, exit, nmake, closedTasks,
                   closedExit, wg, mtxW, mtxR, callers, ntask>>

\* case p.tasks <- task: the unbuffered send meets a worker's receive
\* (case w := <-p.tasks), and the worker calls w.task.Task(w.ctx). Run
\* returns the waiting closure, and the deferred p.mtx.RUnlock() runs. A send
\* on a closed channel panics.
RunSend(t) ==
    /\ Live
    /\ wrappers[t].pc = "run_select"
    /\ IF wrappers[t].tk \in closedTasks
       THEN /\ panicked' = "send on closed channel"
            /\ UNCHANGED <<workers, wrappers, mtxR>>
       ELSE /\ \E w \in DOMAIN workers :
                 /\ Receiving(w, wrappers[t].tk)
                 /\ workers' = [workers EXCEPT ![w].pc = "exec", ![w].t = t]
            /\ wrappers' = [wrappers EXCEPT
                              ![t].pc = "returned", ![t].promise = "wait",
                              ![t].execs = @ + 1]
            /\ mtxR' = mtxR \ {t}
            /\ UNCHANGED panicked
    /\ UNCHANGED <<ctor, state, maxWorkers, tasks, exit, nmake, closedTasks,
                   closedExit, wg, mtxW, callers, ntask>>

\* A lost race that hands the task over all the same: the context is done and
\* Run returns the timeout closure, yet a worker receives the wrapper.
RunCtxDone_StillSent(t) ==
    /\ Live
    /\ wrappers[t].pc = "run_select"
    /\ wrappers[t].done
    /\ \E w \in DOMAIN workers :
         /\ workers[w].pc = "select"
         /\ workers[w].tk = wrappers[t].tk
         /\ workers' = [workers EXCEPT ![w].pc = "exec", ![w].t = t]
    /\ wrappers' = [wrappers EXCEPT
                      ![t].pc = "returned", ![t].promise = "timeout",
                      ![t].execs = @ + 1]
    /\ mtxR' = mtxR \ {t}
    /\ UNCHANGED <<ctor, state, maxWorkers, tasks, exit, nmake, closedTasks,
                   closedExit, wg, mtxW, callers, ntask, panicked>>

\* case <-ctx.Done(): the context is done before a worker took the task; Run
\* returns the timeout closure, and the deferred p.mtx.RUnlock() runs.
RunCtxDone(t) ==
    /\ Live
    /\ wrappers[t].pc = "run_select"
    /\ wrappers[t].done
    /\ wrappers' = [wrappers EXCEPT
                      ![t].pc = "returned", ![t].promise = "timeout"]
    /\ mtxR' = mtxR \ {t}
    /\ UNCHANGED <<ctor, state, maxWorkers, tasks, exit, nmake, closedTasks,
                   closedExit, wg, mtxW, callers, workers, ntask, panicked>>

\* The context of Run call t is cancelled or reaches its deadline. (A
\* context that is never done, such as context.TODO(), is one for which this
\* step never happens.)
CtxDone(t) ==
    /\ Live
    /\ wrappers[t].pc # "none"
    /\ ~wrappers[t].done
    /\ wrappers' = [wrappers EXCEPT ![t].done = TRUE]
    /\ UNCHANGED <<ctor, state, maxWorkers, tasks, exit, nmake, closedTasks,
                   closedExit, wg, mtxW, mtxR, callers, workers, ntask,
                   panicked>>

\* ---------------------------------------------------------------- promise

\* What the waiting closure hands back for a taskResult read from the
\* channel: return result.res, result.err
FromResult(r) == [res |-> r.res, err |-> r.err]

\* A waiting closure that hands back the context's own error, ctx.Err().
PromiseOutcomes_CtxErr(t) ==
    CASE wrappers[t].promise = "notStarted" ->
            {[out |-> OnlyErr(errRunnerNotStarted), read |-> FALSE]}
      [] wrappers[t].promise = "timeout" ->
            {[out |-> OnlyErr(errTimeoutExceeded), read |-> FALSE]}
      [] OTHER ->
            {[out |-> FromResult(wrappers[t].resultChannel[x]),
              read |-> TRUE] :
                x \in {y \in {1} : Len(wrappers[t].resultChannel) > 0}}
            \cup
            {[out |-> OnlyErr("context deadline exceeded"), read |-> FALSE] :
                x \in {y \in {1} : wrappers[t].done}}

\* The outcomes a call of t's closure can have now. The closures of a
\* stopped runner and of a lost send return their error at once; the waiting
\* closure selects between the result channel and ctx.Done().
PromiseOutcomes(t) ==
    CASE wrappers[t].promise = "notStarted" ->
            {[out |-> OnlyErr(errRunnerNotStarted), read |-> FALSE]}
      [] wrappers[t].promise = "timeout" ->
            {[out |-> OnlyErr(errTimeoutExceeded), read |-> FALSE]}
      [] OTHER ->
            {[out |-> FromResult(wrappers[t].resultChannel[x]),
              read |-> TRUE] :
                x \in {y \in {1} : Len(wrappers[t].resultChannel) > 0}}
            \cup
            {[out |-> OnlyErr(errTimeoutExceeded), read |-> FALSE] :
                x \in {y \in {1} : wrappers[t].done}}

\* A closure that reads the result and leaves it in the channel.
Promise_Peeks(t) ==
    /\ Live
    /\ wrappers[t].pc = "returned"
    /\ Len(wrappers[t].got) < MaxInvoke
    /\ \E o \in PromiseOutcomes(t) :
         wrappers' = [wrappers EXCEPT ![t].got = Append(@, o.out)]
    /\ UNCHANGED <<ctor, state, maxWorkers, tasks, exit, nmake, closedTasks,
                   closedExit, wg, mtxW, mtxR, callers, workers, ntask,
                   panicked>>

\* A goroutine calls the closure that Run call t returned, and the call
\* returns (a call that blocks is one whose step is not enabled).
Promise(t) ==
    /\ Live
    /\ wrappers[t].pc = "returned"
    /\ Len(wrappers[t].got) < MaxInvoke
    /\ \E o \in PromiseOutcomes(t) :
         wrappers' = [wrappers EXCEPT
                ![t].got = Append(@, o.out),
                ![t].resultChannel = IF o.read THEN Tail(@) ELSE @]
    /\ UNCHANGED <<ctor, state, maxWorkers, tasks, exit, nmake, closedTasks,
                   closedExit, wg, mtxW, mtxR, callers, workers, ntask,
                   panicked>>

\* ---------------------------------------------------------------- workers

\* The worker evaluates the channel operands of its select, p.exit and
\* p.tasks, and waits on them.
WorkerLoop(w) ==
    /\ Live
    /\ workers[w].pc = "loop"
    /\ workers' = [workers EXCEPT
                     ![w].pc = "select", ![w].ex = exit, ![w].tk = tasks]
    /\ UNCHANGED <<ctor, state, maxWorkers, tasks, exit, nmake, closedTasks,
                   closedExit, wg, mtxW, mtxR, callers, wrappers, ntask,
                   panicked>>

\* The cases of the worker's select that a closed channel makes ready:
\* <-p.exit on a closed exit channel, <-p.tasks on a closed dispatch channel.
ClosedCases(w) ==
    {b \in {"exit", "tasks"} :
        \/ b = "exit" /\ workers[w].ex \in closedExit
        \/ b = "tasks" /\ workers[w].tk \in closedTasks}

\* case <-p.exit: return, and the deferred p.wg.Done(). A receive from the
\* closed dispatch channel yields the zero taskWrapper, whose nil task makes
\* the call w.task.Task panic; so does a WaitGroup counter below zero.
WorkerExit(w) ==
    /\ Live
    /\ workers[w].pc = "select"
    /\ \E b \in ClosedCases(w) :
         IF b = "tasks"
         THEN /\ panicked' = "nil pointer dereference"
              /\ UNCHANGED <<workers, wg>>
         ELSE IF wg = 0
         THEN /\ panicked' = "negative WaitGroup counter"
              /\ UNCHANGED <<workers, wg>>
         ELSE /\ workers' = [v \in DOMAIN workers \ {w} |-> workers[v]]
              /\ wg' = wg - 1
              /\ UNCHANGED panicked
    /\ UNCHANGED <<ctor, state, maxWorkers, tasks, exit, nmake, closedTasks,
                   closedExit, mtxW, mtxR, callers, wrappers, ntask>>

\* res, err := w.task.Task(w.ctx) returns.
WorkerExecReturn(w, r) ==
    /\ Live
    /\ workers[w].pc = "exec"
    /\ workers' = [workers EXCEPT ![w].pc = "deliver", ![w].r = r]
    /\ wrappers' = [wrappers EXCEPT
                      ![workers[w].t].returned = Append(@, r),
                      ![workers[w].t].late = wrappers[workers[w].t].done]
    /\ UNCHANGED <<ctor, state, maxWorkers, tasks, exit, nmake, closedTasks,
                   closedExit, wg, mtxW, mtxR, callers, ntask, panicked>>

\* A delivery select on a result channel without a buffer: with no receiver
\* waiting, only the context's case can be ready.
DeliverCases_NoBuffer(t) == {b \in {"done"} : wrappers[t].done}

\* A worker that wraps the task's error before sending it.
Delivered_Wrapped(r) ==
    [res |-> r.res,
     err |-> IF r.err = NoErr THEN NoErr ELSE "task failed: errMockFailure"]

\* The taskResult the worker sends: taskResult{res, err}.
Delivered(r) == [res |-> r.res, err |-> r.err]

\* A delivery select with a default case in place of <-w.ctx.Done().
DeliverCases_Default(t) ==
    {b \in {"send", "done"} :
        \/ b = "send" /\ Len(wrappers[t].resultChannel) < 1
        \/ b = "done"}

\* The cases of the delivery select that are ready: the send when the
\* result channel (capacity 1) has room, <-w.ctx.Done() when it is done.
DeliverCases(t) ==
    {b \in {"send", "done"} :
        \/ b = "send" /\ Len(wrappers[t].resultChannel) < 1
        \/ b = "done" /\ wrappers[t].done}

\* A worker that returns once it has dealt with one task.
WorkerDeliver_Exits(w) ==
    /\ Live
    /\ workers[w].pc = "deliver"
    /\ \E b \in DeliverCases(workers[w].t) :
         wrappers' = [wrappers EXCEPT
            ![workers[w].t].resultChannel =
                IF b = "send" THEN Append(@, Delivered(workers[w].r)) ELSE @,
            ![workers[w].t].sent = IF b = "send" THEN @ + 1 ELSE @]
    /\ workers' = [v \in DOMAIN workers \ {w} |-> workers[v]]
    /\ wg' = wg - 1
    /\ UNCHANGED <<ctor, state, maxWorkers, tasks, exit, nmake, closedTasks,
                   closedExit, mtxW, mtxR, callers, ntask, panicked>>

\* select { case w.resultChannel <- taskResult{res, err}: case <-w.ctx.Done(): }
WorkerDeliver(w) ==
    /\ Live
    /\ workers[w].pc = "deliver"
    /\ \E b \in DeliverCases(workers[w].t) :
         wrappers' = [wrappers EXCEPT
            ![workers[w].t].resultChannel =
                IF b = "send" THEN Append(@, Delivered(workers[w].r)) ELSE @,
            ![workers[w].t].sent = IF b = "send" THEN @ + 1 ELSE @]
    /\ workers' = [workers EXCEPT ![w] = NewWorker]
    /\ UNCHANGED <<ctor, state, maxWorkers, tasks, exit, nmake, closedTasks,
                   closedExit, wg, mtxW, mtxR, callers, ntask, panicked>>

\* ------------------------------------------------------------------- Next

\* The steps of the goroutines in Cs, which call Start and Stop.
Lifecycle(Cs) ==
    \/ \E c \in Cs : CallStart(c)
    \/ \E c \in Cs : StartLock(c)
    \/ \E c \in Cs : StartCheck(c)
    \/ \E c \in Cs : StartSpawn(c)
    \/ \E c \in Cs : StartReturn(c)
    \/ \E c \in Cs : CallStop(c)
    \/ \E c \in Cs : StopLock(c)
    \/ \E c \in Cs : StopCheck(c)
    \/ \E c \in Cs : StopWait(c)
    \/ \E c \in Cs : StopClose(c)

\* The steps of the Run calls in Ts and of the calls of their closures.
Runs(Ts) ==
    \/ \E t \in Ts : CallRun(t)
    \/ \E t \in Ts : RunRLock(t)
    \/ \E t \in Ts : RunCheck(t)
    \/ \E t \in Ts : RunSend(t)
    \/ \E t \in Ts : Promise(t)

\* The contexts of the Run calls in Ts become done, and the calls see it.
Cancels(Ts) ==
    \/ \E t \in Ts : CtxDone(t)
    \/ \E t \in Ts : RunCtxDone(t)

\* The steps of the workers, whose Task calls return a result in Rs.
Workers(Rs) ==
    \/ \E w \in DOMAIN workers : WorkerLoop(w)
    \/ \E w \in DOMAIN workers : WorkerExit(w)
    \/ \E w \in DOMAIN workers, r \in Rs : WorkerExecReturn(w, r)
    \/ \E w \in DOMAIN workers : WorkerDeliver(w)

\* Any number of goroutines calling Start and Stop, any Run calls.
Next ==
    \/ Lifecycle(Callers)
    \/ Runs(Tasks)
    \/ Cancels(Tasks)
    \/ Workers(TaskReturns)

Spec == Init /\ [][Next]_vars

\* One goroutine calls Start and Stop, one after the other, while the Run
\* calls are issued concurrently.
NextSeq ==
    \/ Lifecycle({"a"})
    \/ Runs(Tasks)
    \/ Cancels(Tasks)
    \/ Workers(TaskReturns)

SpecSeq == Init /\ [][NextSeq]_vars

\* Several goroutines call Start and Stop concurrently, with one Run call.
NextConc ==
    \/ Lifecycle(Callers)
    \/ Runs({1})
    \/ Cancels({1})
    \/ Workers(TaskReturns)

SpecConc == Init /\ [][NextConc]_vars

\* As NextSeq, with contexts that are never done (context.TODO()).
NextTodo ==
    \/ Lifecycle({"a"})
    \/ Runs(Tasks)
    \/ Workers(TaskReturns)

SpecTodo == Init /\ [][NextTodo]_vars

\* --------------------------------------------------------------- fairness

\* The names a worker goroutine can have.
WorkerIds == (1..(MaxStarts + 1)) \X (0..(MaxWorkerCount - 1))

\* What the Go scheduler and runtime guarantee of the goroutines of Cs and Ts
\* and of the workers: a goroutine that can run does run; a goroutine blocked
\* on the RWMutex gets it (waiting readers are released when the writer
\* unlocks, and a waiting writer keeps new readers out); a goroutine blocked
\* in a channel send is served when receivers keep coming (the channel's
\* queue of senders is first in, first out). Nothing is assumed of the
\* callers (whether they call), of the contexts (whether they are ever done)
\* or of the tasks (whether a Task call returns).
Fairness(Cs, Ts) ==
    /\ \A c \in Cs :
         /\ SF_vars(StartLock(c))
         /\ WF_vars(StartCheck(c))
         /\ WF_vars(StartSpawn(c))
         /\ WF_vars(StartReturn(c))
         /\ SF_vars(StopLock(c))
         /\ WF_vars(StopCheck(c))
         /\ WF_vars(StopWait(c))
         /\ WF_vars(StopClose(c))
    /\ \A t \in Ts :
         /\ SF_vars(RunRLock(t))
         /\ WF_vars(RunCheck(t))
         /\ SF_vars(RunSend(t))
         /\ WF_vars(RunCtxDone(t))
    /\ \A w \in WorkerIds :
         /\ WF_vars(w \in DOMAIN workers /\ WorkerLoop(w))
         /\ WF_vars(w \in DOMAIN workers /\ WorkerExit(w))
         /\ WF_vars(w \in DOMAIN workers /\ WorkerDeliver(w))

\* One goroutine calling Start and Stop, fairly scheduled.
FairSeq == SpecSeq /\ Fairness({"a"}, Tasks)

\* What the callers of Ts and their tasks do when every Task call returns
\* and every closure that Run returns is called.
Terminating(Ts) ==
    /\ \A w \in WorkerIds :
         WF_vars(w \in DOMAIN workers
                   /\ \E r \in TaskReturns : WorkerExecReturn(w, r))
    /\ \A t \in Ts : WF_vars(Promise(t))

\* One goroutine calling Start and Stop and Run calls with contexts that are
\* never done, fairly scheduled, with tasks that terminate and closures that
\* are called.
FairTodo == SpecTodo /\ Fairness({"a"}, Tasks) /\ Terminating(Tasks)

\* ------------------------------------------------------------- properties

\* All the goroutines in Callers have called method op and returned, each
\* call overlapped another, no call of the other method was running when any
\* of them was issued or was issued since, and the runner's lifecycle state
\* was `before` when the first of them was issued.
ConcurrentCalls(op, before) ==
    /\ \A c \in Callers :
         /\ callers[c].op = op
         /\ callers[c].pc = "idle"
         /\ callers[c].conc
         /\ ~callers[c].mixed
    /\ \E c \in Callers : callers[c].atCall = before

ExactlyOneSucceeds(loserErr) ==
    /\ Cardinality({c \in Callers : callers[c].ret = NoErr}) = 1
    /\ \A c \in Callers : callers[c].ret \in {NoErr, loserErr}

\* C1: when the Start calls of all callers are issued concurrently on a
\* stopped runner with no Stop running, exactly one returns nil and the
\* others return errRunnerAlreadyStarted; when the Stop calls of all callers
\* are issued concurrently on a started runner with no Start running,
\* exactly one returns nil and the others return errRunnerNotStarted.
C1_OneWinner ==
    /\ ConcurrentCalls("Start", stoppedState)
         => ExactlyOneSucceeds(errRunnerAlreadyStarted)
    /\ ConcurrentCalls("Stop", startedState)
         => ExactlyOneSucceeds(errRunnerNotStarted)

\* Concurrent Stop calls on a started runner have all returned, one of them
\* with success.
C1_Witness ==
    /\ ConcurrentCalls("Stop", startedState)
    /\ \E c \in Callers : callers[c].ret = NoErr

\* Caller c's Stop call returns nil in this step.
StopSucceeds(c) ==
    /\ callers[c].op = "Stop"
    /\ InFlight(c)
    /\ callers'[c].pc = "idle"
    /\ callers'[c].ret = NoErr

\* C2: in the step in which a Stop call returns nil, no worker goroutine is
\* live and no Task call is in progress.
C2_StopWaitsForWorkers ==
    [][\A c \in Callers :
         StopSucceeds(c) => DOMAIN workers' = {} /\ Executing' = {}]_vars

\* A Stop call that closed the exit channel while a worker was executing a
\* task has returned nil.
C2_Witness ==
    \E c \in Callers :
        /\ callers[c].op = "Stop"
        /\ callers[c].pc = "idle"
        /\ callers[c].ret = NoErr
        /\ callers[c].busy

\* Run call t passed the isRunning check: it ran on a started runner.
OnStarted(t) == wrappers[t].made

\* Outcome (a) of a Run call: a worker received the wrapper, the task was
\* executed once and Run returned the waiting closure.
Accepted(t) == wrappers[t].promise = "wait" /\ wrappers[t].execs = 1

\* Outcome (b) of a Run call: the context won, Run returned the timeout
\* closure and the task was never executed.
TimedOut(t) == wrappers[t].promise = "timeout" /\ wrappers[t].execs = 0

\* C3: a Run call on a started runner that has returned has exactly one of
\* the outcomes (a) and (b), and it stays so; until Run returns, no worker has
\* the task.
C3_AcceptedOrTimedOut ==
    \A t \in Tasks :
        OnStarted(t) =>
            IF wrappers[t].pc = "returned"
            THEN Accepted(t) # TimedOut(t)
            ELSE wrappers[t].execs = 0 /\ wrappers[t].promise = "none"

\* Of two Run calls on a started runner, one was accepted by a worker and the
\* other lost the race to its context.
C3_Witness ==
    \E t, u \in Tasks :
        /\ OnStarted(t) /\ Accepted(t) /\ Len(wrappers[t].returned) = 1
        /\ OnStarted(u) /\ TimedOut(u)

\* Run call t is in progress: issued and not yet returned.
Running(t) == wrappers[t].pc \in {"run_rlock", "run_cs", "run_select"}

\* C4: whatever the state of the pool, a Run call whose context is done
\* returns, whether or not any Task call returns.
C4_RunBoundedByContext ==
    \A t \in Tasks : (Running(t) /\ wrappers[t].done) ~> ~Running(t)

\* C5: the number of Task calls in progress is at most the configured worker
\* count.
C5_AtMostWorkerCountExecuting == Cardinality(Executing) <= maxWorkers

\* After a stop and a restart every worker of the pool is executing a task
\* while another Run call waits for a worker.
C5_Witness ==
    /\ nmake >= 3
    /\ Cardinality(Executing) = maxWorkers
    /\ \E t \in Tasks : wrappers[t].pc = "run_select"

\* The state of the runner: its lifecycle state, its channels and whether
\* they are closed, its workers and its WaitGroup counter.
RunnerState ==
    <<state, tasks, exit, nmake, closedTasks, closedExit, workers, wg,
      maxWorkers>>

\* Run call t, holding the read lock, takes its step from the isRunning check.
RunChecks(t) ==
    /\ wrappers[t].pc = "run_cs"
    /\ wrappers'[t].pc # "run_cs"

\* C6: a Run call that finds the runner stopped returns the not-started
\* closure in that step, leaving the runner's state as it was; no taskWrapper
\* is made for it and its task is never executed; and a call of its closure
\* does not block and returns errRunnerNotStarted.
C6_RunOnStopped ==
    /\ [][\A t \in Tasks :
            RunChecks(t) /\ ~isRunning =>
                /\ wrappers'[t].pc = "returned"
                /\ wrappers'[t].promise = "notStarted"
                /\ UNCHANGED RunnerState]_vars
    /\ [](\A t \in Tasks :
            wrappers[t].promise = "notStarted" =>
                /\ ~wrappers[t].made
                /\ wrappers[t].execs = 0
                /\ t \notin Executing
                /\ PromiseOutcomes(t) = {[out |-> OnlyErr(errRunnerNotStarted),
                                          read |-> FALSE]}
                /\ \A i \in 1..Len(wrappers[t].got) :
                     wrappers[t].got[i] = OnlyErr(errRunnerNotStarted))

\* A Run call issued after a successful Stop found the runner stopped, and
\* its closure was called.
C6_Witness ==
    \E t \in Tasks :
        /\ wrappers[t].promise = "notStarted"
        /\ wrappers[t].got # << >>
        /\ closedTasks # {}

\* Caller c, holding the write lock, takes its step from the isRunning check
\* of method op (a step that panics is a step too).
Checks(c, op, pc) ==
    /\ callers[c].op = op
    /\ callers[c].pc = pc
    /\ callers'[c].pc # pc \/ panicked' # panicked

\* The call of caller c returns error e in this step.
Fails(c, e) == callers'[c].pc = "idle" /\ callers'[c].ret = e

\* C7: a Start call that finds the runner started returns
\* errRunnerAlreadyStarted and a Stop call that finds it stopped returns
\* errRunnerNotStarted, and neither changes the lifecycle state, the
\* channels, the workers or the WaitGroup counter.
C7_RejectedCallChangesNothing ==
    [][\A c \in Callers :
         /\ Checks(c, "Start", "start_cs") /\ isRunning =>
                Fails(c, errRunnerAlreadyStarted) /\ UNCHANGED RunnerState
         /\ Checks(c, "Stop", "stop_cs") /\ ~isRunning =>
                Fails(c, errRunnerNotStarted) /\ UNCHANGED RunnerState]_vars

\* A Stop call on a runner that was stopped before has returned
\* errRunnerNotStarted, and earlier a Start call on the started runner had
\* returned errRunnerAlreadyStarted.
C7_Witness ==
    /\ callers["a"].op = "Stop"
    /\ callers["a"].pc = "idle"
    /\ callers["a"].ret = errRunnerNotStarted
    /\ callers["b"].op = "Start"
    /\ callers["b"].pc = "idle"
    /\ callers["b"].ret = errRunnerAlreadyStarted
    /\ ~callers["b"].conc
    /\ closedExit # {}

\* A call of t's closure returned what t's Task call returned.
Resolved(t) ==
    /\ Len(wrappers[t].returned) = 1
    /\ Len(wrappers[t].got) >= 1
    /\ wrappers[t].got[1] = wrappers[t].returned[1]

\* C8: on a started runner whose tasks terminate and whose closures are
\* called, every Run call whose context is never done has its closure return
\* what its task returned, however many more calls than workers there are;
\* and a Stop call on the started runner returns nil.
C8_AllResolveThenStop ==
    /\ \A t \in Tasks :
         wrappers[t].pc = "run_select" ~> (wrappers[t].done \/ Resolved(t))
    /\ \A c \in Callers :
         (callers[c].pc = "stop_lock" /\ isRunning)
            ~> (callers[c].pc = "idle" /\ callers[c].ret = NoErr)

\* On a runner with one worker, every one of the Run calls (more than one)
\* has had its closure return the task's value and no error, with no context
\* done, and the Stop call issued afterwards has returned nil.
C8_Witness ==
    /\ maxWorkers = 1
    /\ \A t \in Tasks :
         /\ ~wrappers[t].done
         /\ Resolved(t)
         /\ wrappers[t].got[1] = [res |-> "test", err |-> NoErr]
    /\ callers["a"].op = "Stop"
    /\ callers["a"].pc = "idle"
    /\ callers["a"].ret = NoErr
    /\ nmake = 2

\* The runner was stopped and started again, and no Start or Stop call is in
\* progress.
Restarted ==
    /\ nmake >= 3
    /\ isRunning
    /\ \A c \in Callers : callers[c].pc = "idle"

\* The workers the latest Start launched.
LatestWorkers == {<<nmake, i>> : i \in 0..(maxWorkers - 1)}

\* C9: after a Stop and a Start, the live workers are the maxWorkers workers
\* the new Start launched, waiting on the channels that Start made, and
\* these are open; a Run call then issued, whose context is never done, is
\* handed to one of those workers and its closure returns what the task
\* returned.
C9_RestartWorks ==
    /\ [](Restarted =>
            /\ DOMAIN workers = LatestWorkers
            /\ tasks = nmake /\ tasks \notin closedTasks
            /\ exit = nmake /\ exit \notin closedExit
            /\ \A w \in DOMAIN workers :
                 workers[w].pc = "select" =>
                    workers[w].tk = tasks /\ workers[w].ex = exit)
    /\ [][\A t \in Tasks :
            wrappers[t].pc = "run_select" /\ wrappers'[t].promise = "wait" =>
                \E w \in LatestWorkers :
                    /\ workers[w].pc = "select"
                    /\ workers'[w].pc = "exec"
                    /\ workers'[w].t = t]_vars
    /\ \A t \in Tasks :
         (Restarted /\ wrappers[t].pc = "run_select")
            ~> (wrappers[t].done \/ Resolved(t))

\* A Run call issued after a stop and a restart, with a context that is not
\* done, went over the new dispatch channel and its closure returned what the
\* task returned.
C9_Witness ==
    \E t \in Tasks :
        /\ wrappers[t].tk >= 3
        /\ ~wrappers[t].done
        /\ Resolved(t)

\* A worker with a task that returned an error takes a step: the Task call
\* returns the error, or the worker is done with delivering it.
FailingTaskStep(w) ==
    /\ w \in DOMAIN workers'
    /\ \/ /\ workers[w].pc = "exec"
          /\ workers'[w].pc = "deliver"
          /\ workers'[w].r.err # NoErr
       \/ /\ workers[w].pc = "deliver"
          /\ workers[w].r.err # NoErr
          /\ workers'[w].pc # "deliver"

\* A task before Run call t returned an error.
AfterFailure(t) ==
    \E u \in 1..(t - 1) :
        /\ Len(wrappers[u].returned) = 1
        /\ wrappers[u].returned[1].err # NoErr

\* C10: the closure of a task that a worker accepted returns, when the
\* context is not done, the value and the error the Task call returned; a
\* task that returns an error changes neither the lifecycle state nor the
\* live workers; and a later Run call, whose context is never done, is still
\* accepted and its closure returns what its task returned.
C10_ErrorPassedThrough ==
    /\ [](\A t \in Tasks :
            \A i \in 1..Len(wrappers[t].got) :
                wrappers[t].promise = "wait" /\ ~wrappers[t].done =>
                    /\ Len(wrappers[t].returned) = 1
                    /\ wrappers[t].got[i].res = wrappers[t].returned[1].res
                    /\ wrappers[t].got[i].err = wrappers[t].returned[1].err)
    /\ [][\A w \in DOMAIN workers :
            FailingTaskStep(w) =>
                /\ state' = state
                /\ DOMAIN workers' = DOMAIN workers
                /\ wg' = wg]_vars
    /\ \A t \in Tasks :
         (AfterFailure(t) /\ wrappers[t].pc = "run_select")
            ~> (wrappers[t].done \/ Resolved(t))

\* On a runner with one worker a task returned an error, its closure
\* returned that error, and the closure of a later task returned that task's
\* value.
C10_Witness ==
    \E t \in Tasks :
        /\ maxWorkers = 1
        /\ AfterFailure(t)
        /\ \E u \in 1..(t - 1) :
             /\ wrappers[u].got = <<[res |-> "nil", err |-> "errMockFailure"]>>
             /\ wrappers[u].tk = wrappers[t].tk
        /\ Resolved(t)
        /\ wrappers[t].got[1] = [res |-> "test", err |-> NoErr]
        /\ isRunning

\* A call of t's closure returns in this step.
PromiseReturns(t) == Len(wrappers'[t].got) = Len(wrappers[t].got) + 1

\* What the latest call of t's closure returned.
LastGot(t) == wrappers[t].got[Len(wrappers[t].got)]

\* C11: on a started runner, a closure that is called as soon as Run returns
\* and whose context is done before the Task call can finish, so that the
\* call of the closure returns before the Task call does, returns
\* errTimeoutExceeded, whether no worker accepted the wrapper or one did
\* after the wait; so does the closure of the second of two tasks given to
\* a runner with one worker.
C11_SecondTimesOut ==
    [][\A t \in Tasks :
         (PromiseReturns(t) /\ OnStarted(t) /\ wrappers[t].returned = << >>)
            => /\ wrappers[t].done
               /\ LastGot(t)' = OnlyErr(errTimeoutExceeded)]_vars

\* On a runner with one worker the closure of the first task returned
\* errTimeoutExceeded; the second task was accepted once the worker was free
\* again, and its closure returned errTimeoutExceeded while its Task call
\* was still in progress.
C11_Witness ==
    /\ maxWorkers = 1
    /\ wrappers[1].promise = "wait"
    /\ wrappers[1].got = <<OnlyErr(errTimeoutExceeded)>>
    /\ Len(wrappers[1].returned) = 1
    /\ wrappers[2].promise = "wait"
    /\ wrappers[2].tk = wrappers[1].tk
    /\ wrappers[2].got = <<OnlyErr(errTimeoutExceeded)>>
    /\ 2 \in Executing

\* The options of the list opts that return an error when applied.
FailingOptions(opts) ==
    {k \in 1..Len(opts) :
        \/ opts[k].name = "OptionMaxGoroutines" /\ opts[k].n <= 0
        \/ opts[k].name = "OptionTaskCounter" /\ opts[k].ctr = "nil"}

\* The worker-count options of the list opts.
CountOptions(opts) ==
    {k \in 1..Len(opts) : opts[k].name = "OptionMaxGoroutines"}

Least(S) == CHOOSE k \in S : \A j \in S : k <= j

Greatest(S) == CHOOSE k \in S : \A j \in S : k >= j

\* C12: a call of NewTaskRunner whose options all succeed returns a runner
\* and no error; the runner is stopped and its worker count is the n of the
\* last worker-count option, which is at least 1, or 4 without such an
\* option. A call with an option that fails (a worker count n <= 0, a nil
\* counter) returns no runner and the error of the first such option, and
\* applies no option after it.
C12_Construct ==
    ctor.pc = "returned" =>
        LET opts == ctor.options
            failing == FailingOptions(opts)
            counts == CountOptions(opts)
        IN  IF failing = {}
            THEN /\ ctor.runner = "&p"
                 /\ ctor.err = NoErr
                 /\ state = stoppedState
                 /\ maxWorkers >= 1
                 /\ maxWorkers = IF counts = {}
                                 THEN 4
                                 ELSE opts[Greatest(counts)].n
            ELSE /\ ctor.runner = "nil"
                 /\ ctor.i = Least(failing)
                 /\ ctor.err =
                      IF opts[Least(failing)].name = "OptionMaxGoroutines"
                      THEN "number of goroutines must be postive"
                      ELSE "counter must be non-nil"

\* NewTaskRunner was given a worker count of 1, then one of 0 and then a nil
\* counter, and returned no runner and the error of the worker count 0.
C12_Witness ==
    /\ ctor.pc = "returned"
    /\ Len(ctor.options) = 3
    /\ ctor.options[1] = OptionMaxGoroutines(1)
    /\ ctor.options[2] = OptionMaxGoroutines(0)
    /\ ctor.options[3] = OptionTaskCounter("nil")
    /\ ctor.runner = "nil"
    /\ ctor.err = errNotPositive

\* The dispatch and exit channels made by the Start that launched worker w
\* (the launch loop names its workers after the channels it made).
PeriodOf(w) == w[1]

\* C13: in every reachable state, whatever the interleaving of Start, Stop,
\* Run and worker steps, no runtime panic has happened (no send on a closed
\* dispatch channel, no close of a closed channel), no Run call is about to
\* send on a closed dispatch channel, and every worker that waits on
\* channels, or has received a wrapper from one, uses the dispatch and exit
\* channels made by the Start that launched it.
C13_ChannelsWithinPeriod ==
    /\ panicked = "none"
    /\ \A t \in Tasks :
         wrappers[t].pc = "run_select" =>
            wrappers[t].tk = tasks /\ wrappers[t].tk \notin closedTasks
    /\ \A w \in DOMAIN workers :
         workers[w].pc # "loop" =>
            /\ workers[w].tk = PeriodOf(w)
            /\ workers[w].ex = PeriodOf(w)

\* After a stop and a restart, with the channels of the first period closed,
\* a worker of the second period has received a wrapper that Run sent on the
\* second dispatch channel.
C13_Witness ==
    /\ nmake >= 3
    /\ (nmake - 1) \in closedTasks \cap closedExit
    /\ \E w \in DOMAIN workers, t \in Tasks :
         /\ PeriodOf(w) = nmake
         /\ workers[w].pc = "exec"
         /\ workers[w].t = t
         /\ wrappers[t].tk = nmake

\* Worker w returns in this step.
WorkerReturns(w) == w \in DOMAIN workers /\ w \notin DOMAIN workers'

\* Worker w receives a wrapper and calls its Task in this step.
WorkerBegins(w) ==
    /\ w \in DOMAIN workers
    /\ w \in DOMAIN workers'
    /\ workers[w].pc # "exec"
    /\ workers'[w].pc = "exec"

\* C14: a worker returns only from its select, on the closed exit channel,
\* never while the Task call it made is in progress or its result
\* undelivered; and once the exit channel of a started period is closed, no
\* worker of that period begins a Task call and no Run call is sending on
\* that period's dispatch channel.
C14_NoExitMidTask ==
    /\ [][\A w \in DOMAIN workers :
            /\ WorkerReturns(w) =>
                    /\ workers[w].pc = "select"
                    /\ workers[w].ex \in closedExit
                    /\ \A v \in DOMAIN workers' : workers'[v] = workers[v]
            /\ WorkerBegins(w) =>
                    /\ workers[w].pc = "select"
                    /\ workers[w].ex \notin closedExit
                    /\ PeriodOf(w) \notin closedExit]_vars
    /\ [](\A t \in Tasks :
            wrappers[t].pc = "run_select" =>
                wrappers[t].tk \notin closedExit)

\* Stop closed the exit channel while a worker was in a Task call; that
\* call has returned and every worker has since returned, while a Run call
\* issued in the meantime waits for the lock.
C14_Witness ==
    /\ \E c \in Callers :
         /\ callers[c].pc = "stop_wait"
         /\ callers[c].busy
    /\ exit \in closedExit
    /\ DOMAIN workers = {}
    /\ \E t, u \in Tasks :
         /\ wrappers[t].tk = exit
         /\ Len(wrappers[t].returned) = 1
         /\ wrappers[u].pc = "run_rlock"

\* The calls of t's closure that returned a result read from the channel
\* (no task of the model returns errTimeoutExceeded itself).
ResultsGot(t) ==
    {i \in 1..Len(wrappers[t].got) :
        wrappers[t].got[i] # OnlyErr(errTimeoutExceeded)}

\* C15: for every taskWrapper that Run made, at most one taskResult is ever
\* sent on its result channel, and it is what the Task call returned; of
\* the calls of the closure at most one returns it, and every other call
\* that returns, returns errTimeoutExceeded; a result that was sent is
\* either still in the channel or was returned by that one call.
C15_OneResultOneReader ==
    \A t \in Tasks :
        wrappers[t].made =>
            /\ wrappers[t].sent <= 1
            /\ Cardinality(ResultsGot(t)) <= 1
            /\ Cardinality(ResultsGot(t)) + Len(wrappers[t].resultChannel)
                    = wrappers[t].sent
            /\ wrappers[t].sent = 1 => Len(wrappers[t].returned) = 1
            /\ \A i \in ResultsGot(t) :
                    wrappers[t].got[i] = wrappers[t].returned[1]
            /\ \A i \in 1..Len(wrappers[t].resultChannel) :
                    wrappers[t].resultChannel[i] = wrappers[t].returned[1]

\* The closure of a task was called twice: the first call returned the
\* task's result, the second, with the result gone and the context done,
\* errTimeoutExceeded.
C15_Witness ==
    \E t \in Tasks :
        /\ wrappers[t].made
        /\ wrappers[t].sent = 1
        /\ Len(wrappers[t].got) = 2
        /\ wrappers[t].got[1] = wrappers[t].returned[1]
        /\ wrappers[t].got[2] = OnlyErr(errTimeoutExceeded)

\* Worker w takes a case of its delivery select in this step.
Delivers(w) ==
    /\ w \in DOMAIN workers
    /\ workers[w].pc = "deliver"
    /\ w \in DOMAIN workers' => workers'[w].pc # "deliver"

\* C16, as claimed: when the context of a wrapper was done as its Task call
\* returned, the worker puts no taskResult on the result channel and goes
\* back to its loop.
C16_AbandonsWhenDone ==
    [][\A w \in DOMAIN workers :
         (Delivers(w) /\ wrappers[workers[w].t].late) =>
            /\ wrappers'[workers[w].t].resultChannel
                    = wrappers[workers[w].t].resultChannel
            /\ w \in DOMAIN workers'
            /\ workers'[w].pc = "loop"]_vars

\* C16, amended: when the context of a wrapper is done as its Task call
\* returns, the worker either puts the taskResult on the result channel or
\* abandons the delivery, and in both cases goes straight back to its loop;
\* it abandons a delivery only when the context is done.
C16_DeliversOrAbandons ==
    [][\A w \in DOMAIN workers :
         Delivers(w) =>
            LET t == workers[w].t
                rc == wrappers[t].resultChannel
            IN  /\ w \in DOMAIN workers'
                /\ workers'[w].pc = "loop"
                /\ \/ wrappers'[t].resultChannel
                        = Append(rc, [res |-> workers[w].r.res,
                                      err |-> workers[w].r.err])
                   \/ wrappers[t].done /\ wrappers'[t].resultChannel = rc
                /\ wrappers[t].late => wrappers[t].done]_vars

\* The context of a wrapper was done when its Task call returned, the
\* worker put the result on the channel all the same and is back in its
\* loop or beyond, and no call of the closure has read the result.
C16_Witness ==
    \E t \in Tasks :
        /\ wrappers[t].late
        /\ wrappers[t].sent = 1
        /\ Len(wrappers[t].resultChannel) = 1
        /\ t \notin {workers[w].t : w \in DOMAIN workers}

\* A Start or Stop call is inside its critical section: it owns the lock.
InCriticalSection == \E c \in Callers : mtxW = c /\ mtxR = {}

\* A Stop call is in progress.
Stopping == \E c \in Callers : callers[c].op = "Stop" /\ callers[c].pc # "idle"

\* C17: while the runner is started and no Start or Stop call is inside its
\* critical section, the live workers number exactly the configured worker
\* count; while it is stopped and no Stop call is in progress, there is no
\* live worker; and the configured worker count, which is at least 1, never
\* changes.
C17_WorkerCountFixed ==
    /\ [](state = startedState /\ ~InCriticalSection =>
            Cardinality(DOMAIN workers) = maxWorkers)
    /\ [](state = stoppedState /\ ~Stopping => DOMAIN workers = {})
    /\ [](maxWorkers >= 1)
    /\ [][maxWorkers' = maxWorkers]_vars

\* After a stop and a restart no Start or Stop call is in progress, the
\* runner has two workers, and one of them has executed a task and gone
\* back to its loop.
C17_Witness ==
    /\ nmake >= 3
    /\ state = startedState
    /\ \A c \in Callers : callers[c].pc = "idle"
    /\ maxWorkers = 2
    /\ Cardinality(DOMAIN workers) = 2
    /\ \E t \in Tasks :
         /\ wrappers[t].tk = nmake
         /\ Len(wrappers[t].returned) = 1
         /\ t \notin {workers[w].t : w \in DOMAIN workers}

\* The callers have issued one a Start and the other a Stop, each while the
\* runner was stopped and each overlapping the other, and both have returned.
StartAndStopTogether ==
    /\ {callers[c].op : c \in Callers} = {"Start", "Stop"}
    /\ \A c \in Callers :
         /\ callers[c].pc = "idle"
         /\ callers[c].atCall = stoppedState
         /\ callers[c].mixed

\* C18: when as many Start calls as Stop calls are issued concurrently on a
\* stopped runner, at least one of them returns an error.
C18_SomeCallFails ==
    StartAndStopTogether => \E c \in Callers : callers[c].ret # NoErr

\* C19: when every Task call returns, a Stop call on a started runner that
\* asks for the lock while Run calls, whose contexts are never done, are
\* blocked in their send holding the read lock, returns nil in the end, and
\* every Run call that is in its send while a Stop call waits for the lock
\* is handed to a worker and returns.
C19_StopReturnsDespiteBlockedRuns ==
    /\ \A c \in Callers :
         (callers[c].pc = "stop_cs" /\ callers[c].held)
            ~> (callers[c].pc = "idle" /\ callers[c].ret = NoErr)
    /\ \A t \in Tasks :
         (wrappers[t].pc = "run_select" /\ mtxW # NoOne)
            ~> (wrappers[t].pc = "returned" /\ wrappers[t].promise = "wait")

\* A Stop call that asked for the lock while a Run call with a context that
\* is not done was blocked in its send has returned nil.
C19_Witness ==
    \E c \in Callers :
        /\ callers[c].op = "Stop"
        /\ callers[c].pc = "idle"
        /\ callers[c].ret = NoErr
        /\ callers[c].held
        /\ \A t \in Tasks : ~wrappers[t].done

\* C20: a worker never blocks in its delivery select: whenever a worker has
\* a result to deliver, nothing was sent on the wrapper's result channel
\* before, the channel has room, and the worker can take its step at once,
\* whether or not the closure is ever called and whether or not the context
\* is ever done; the step takes it back to its loop.
C20_DeliveryNeverBlocks ==
    /\ [](\A w \in DOMAIN workers :
            workers[w].pc = "deliver" =>
                /\ wrappers[workers[w].t].sent = 0
                /\ wrappers[workers[w].t].resultChannel = << >>
                /\ ENABLED WorkerDeliver(w))
    /\ [][\A w \in DOMAIN workers :
            Delivers(w) => w \in DOMAIN workers' /\ workers'[w].pc = "loop"]_vars

\* On a runner with one worker the result of the first task lies in its
\* channel, its closure was never called and its context is not done; the
\* worker has since accepted the second task and has its result to deliver.
C20_Witness ==
    /\ maxWorkers = 1
    /\ Len(wrappers[1].resultChannel) = 1
    /\ wrappers[1].got = << >>
    /\ ~wrappers[1].done
    /\ ~wrappers[2].done
    /\ wrappers[2].got = << >>
    /\ \E w \in DOMAIN workers :
         workers[w].pc = "deliver" /\ workers[w].t = 2

====
